---- MODULE Spec2Model ----
(***************************************************************************)
(* A model of the e-mail grouping notebook                                 *)
(* (scripts/tools/emailanalysis/emailgrouping.ipynb): the body cleaning    *)
(* cell, the clustering cell, the feature ranking functions, the query     *)
(* cells and the tagging loop.  The notebook's cells are the operations;   *)
(* its Python globals are the state.                                       *)
(*                                                                         *)
(* Strings are sequences of one-character strings.  Weights and            *)
(* similarities, real numbers in the notebook, are non-negative integers   *)
(* here (fixed point); the matrix produced by fit_transform and the idf    *)
(* vector of the fitted vectorizer are drawn from every such value in      *)
(* Init, so nothing in the model depends on how scikit-learn computes      *)
(* them.                                                                   *)
(***************************************************************************)
EXTENDS Integers, Sequences, FiniteSets, TLC

(***************************************************************************)
(* Characters                                                              *)
(***************************************************************************)
Digits == {"0", "1", "2", "3", "4", "5", "6", "7", "8", "9"}

Letters ==
    {"a", "b", "c", "d", "e", "f", "g", "h", "i", "j", "k", "l", "m",
     "n", "o", "p", "q", "r", "s", "t", "u", "v", "w", "x", "y", "z",
     "A", "B", "C", "D", "E", "F", "G", "H", "I", "J", "K", "L", "M",
     "N", "O", "P", "Q", "R", "S", "T", "U", "V", "W", "X", "Y", "Z"}

\* the characters \s matches
Whitespace == {" ", "\t", "\n", "\r", "\f"}

IsSpace(c) == c \in Whitespace
IsDigit(c) == c \in Digits
IsAlnum(c) == c \in Letters \cup Digits

\* where the characters of s are of a class of the patterns
NonSpaceMask(s) == [k \in DOMAIN s |-> ~IsSpace(s[k])]
DigitMask(s) == [k \in DOMAIN s |-> IsDigit(s[k])]
NonAlnumMask(s) == [k \in DOMAIN s |-> ~IsAlnum(s[k])]
BlankMask(s) == [k \in DOMAIN s |-> s[k] = " "]
NewlineMask(s) == [k \in DOMAIN s |-> s[k] \in {"\r", "\n"}]
NonLineFeedMask(s) == [k \in DOMAIN s |-> s[k] # "\n"]

\* the number of consecutive positions, from i on, at which mask is true:
\* what a greedy X* or X+ consumes at i, mask saying where X matches
RunLen(mask, i) ==
    LET ends == {e \in (i - 1)..Len(mask) : \A k \in i..e : mask[k]}
    IN  (CHOOSE e \in ends : \A f \in ends : f <= e) - (i - 1)

\* s holds p at position i
HasAt(s, i, p) ==
    /\ i + Len(p) - 1 <= Len(s)
    /\ \A k \in 1..Len(p) : s[i + k - 1] = p[k]

(***************************************************************************)
(* re.sub(pattern, ' ', s): scan s from the left; where the pattern        *)
(* matches (lens[i] is the length of its match at i, 0 for none) put one   *)
(* space and go on after the match, else copy the character.  None of the  *)
(* notebook's patterns matches the empty string.                           *)
(***************************************************************************)
RECURSIVE ReSub(_, _, _)
ReSub(lens, s, i) ==
    IF i > Len(s) THEN <<>>
    ELSE IF lens[i] > 0 THEN <<" ">> \o ReSub(lens, s, i + lens[i])
    ELSE <<s[i]>> \o ReSub(lens, s, i + 1)

\* \S*<mark>\S*\s? at i, marks saying where in s the mark is: the run of
\* non-whitespace from i on, when the mark is in it, and one whitespace
\* character after it
MatchToken(marks, s, i) ==
    LET n == RunLen(NonSpaceMask(s), i)
        e == i + n - 1
    IN  IF n > 0 /\ \E k \in i..e : marks[k]
        THEN n + (IF e < Len(s) /\ IsSpace(s[e + 1]) THEN 1 ELSE 0)
        ELSE 0

\* where : is, where -\S- begins, where @ is
ColonMarks(s) == [k \in DOMAIN s |-> s[k] = ":"]
HyphenCodeMarks(s) ==
    [k \in DOMAIN s |->
        /\ k + 2 <= Len(s)
        /\ s[k] = "-" /\ ~IsSpace(s[k + 1]) /\ s[k + 2] = "-"]
AtSignMarks(s) == [k \in DOMAIN s |-> s[k] = "@"]

\* r'\S*:\S*\s?'
MatchLabelValue(s, i) == MatchToken(ColonMarks(s), s, i)

\* r'\S*-\S-\S*\s?'
MatchHyphenCode(s, i) == MatchToken(HyphenCodeMarks(s), s, i)

\* r'\S*@\S*\s?'
MatchEmail(s, i) == MatchToken(AtSignMarks(s), s, i)

\* r'^https?:\/\/.*[\r\n]*' (no MULTILINE flag: ^ is the start of the string)
MatchUrl(s, i) ==
    LET http == <<"h", "t", "t", "p", ":", "/", "/">>
        https == <<"h", "t", "t", "p", "s", ":", "/", "/">>
        p == IF HasAt(s, 1, https) THEN Len(https)
             ELSE IF HasAt(s, 1, http) THEN Len(http) ELSE 0
        line == RunLen(NonLineFeedMask(s), p + 1)
    IN  IF i = 1 /\ p > 0
        THEN p + line + RunLen(NewlineMask(s), p + line + 1)
        ELSE 0

\* r'[^a-zA-Z0-9]+'
MatchNonAlnum(s, i) == RunLen(NonAlnumMask(s), i)

\* $ at position j: the end of the string, or before a final newline
AtEnd(s, j) == j = Len(s) + 1 \/ (j = Len(s) /\ s[j] = "\n")

\* "^\d+\s|\s\d+\s|\s\d+$": the first alternative that matches at i
MatchNumeric(s, i) ==
    LET d0 == RunLen(DigitMask(s), i)
        d1 == RunLen(DigitMask(s), i + 1)
    IN  IF i = 1 /\ d0 > 0 /\ i + d0 <= Len(s) /\ IsSpace(s[i + d0])
        THEN d0 + 1
        ELSE IF IsSpace(s[i]) /\ d1 > 0 /\ i + d1 + 1 <= Len(s)
                /\ IsSpace(s[i + d1 + 1])
        THEN d1 + 2
        ELSE IF IsSpace(s[i]) /\ d1 > 0 /\ AtEnd(s, i + d1 + 1)
        THEN d1 + 1
        ELSE 0

\* r' +'
MatchSpaces(s, i) == RunLen(BlankMask(s), i)

\* the delimiter of a quoted reply: '\r\n\r\n \r\n\r\nFrom'
ReplyDelimiter ==
    <<"\r", "\n", "\r", "\n", " ", "\r", "\n", "\r", "\n", "F", "r", "o", "m">>

\* s.split(ReplyDelimiter)[0]: s up to the first delimiter, all of s
\* when there is none
SplitReply(s) ==
    LET at == {i \in 1..Len(s) : HasAt(s, i, ReplyDelimiter)}
    IN  IF at = {} THEN s
        ELSE SubSeq(s, 1, (CHOOSE i \in at : \A j \in at : i <= j) - 1)

SubLabelValue(s) == ReSub([i \in DOMAIN s |-> MatchLabelValue(s, i)], s, 1)
SubHyphenCode(s) == ReSub([i \in DOMAIN s |-> MatchHyphenCode(s, i)], s, 1)
SubUrl(s) == ReSub([i \in DOMAIN s |-> MatchUrl(s, i)], s, 1)
SubEmail(s) == ReSub([i \in DOMAIN s |-> MatchEmail(s, i)], s, 1)
SubNonAlnum(s) == ReSub([i \in DOMAIN s |-> MatchNonAlnum(s, i)], s, 1)
SubNumeric(s) == ReSub([i \in DOMAIN s |-> MatchNumeric(s, i)], s, 1)
SubSpaces(s) == ReSub([i \in DOMAIN s |-> MatchSpaces(s, i)], s, 1)

\* the seven re.sub lines of the cleaning cell, in order
CleanText(s) ==
    SubSpaces(SubNumeric(SubNonAlnum(SubEmail(SubUrl(
        SubHyphenCode(SubLabelValue(s)))))))

\* the whole cleaning chain on one body string
CleanBody(s) == CleanText(SplitReply(s))

(***************************************************************************)
(* Vectors, matrices and numpy                                             *)
(***************************************************************************)
RECURSIVE SumSeq(_)
SumSeq(a) == IF a = <<>> THEN 0 ELSE Head(a) + SumSeq(Tail(a))

\* the dot product of two vectors of the same length
Dot(u, v) == SumSeq([t \in DOMAIN u |-> u[t] * v[t]])

\* sklearn's linear_kernel(vec_query, x_dense).flatten(): the dot product
\* of the query vector with every row
LinearKernel(q, m) == [i \in DOMAIN m |-> Dot(q, m[i])]

\* np.count_nonzero
CountNonzero(a) == Cardinality({i \in DOMAIN a : a[i] # 0})

\* the orders that list the indices S of a with their values ascending:
\* each starts with an index of a least value
RECURSIVE Ascending(_, _)
Ascending(a, S) ==
    IF S = {} THEN {<<>>}
    ELSE UNION {{<<i>> \o p : p \in Ascending(a, S \ {i})} :
                   i \in {j \in S : \A k \in S : a[j] <= a[k]}}

\* the outcomes of a.argsort(): the permutations of the indices of a that
\* put its values in ascending order.  The default kind, quicksort, is not
\* stable, so equal values come in an order the build decides.
Argsort(a) == Ascending(a, DOMAIN a)

\* Python's a[:stop:-1]: from the last element down to, and without, the
\* one at the 0-based index stop (a negative stop counts from the end;
\* note that -0 is 0)
SliceRev(a, stop) ==
    LET n == Len(a)
        lo == IF stop < 0
              THEN (IF stop + n < 0 THEN -1 ELSE stop + n)
              ELSE (IF stop >= n THEN n - 1 ELSE stop)
        len == IF n - 1 - lo > 0 THEN n - 1 - lo ELSE 0
    IN  [k \in 1..len |-> a[n - k + 1]]

\* Python's a[::-1][:top_n]
ReverseTake(a, top_n) ==
    LET n == Len(a)
        len == IF top_n < n THEN top_n ELSE n
    IN  [k \in 1..len |-> a[n - k + 1]]

\* the elements of a sequence
Range(a) == {a[i] : i \in DOMAIN a}

(***************************************************************************)
(* The corpus and the fitted model                                         *)
(***************************************************************************)
\* the number of messages of the inbox, all read into pdraw
NumDocs == 3

\* the largest tf-idf weight, in the model's fixed-point unit
MaxWeight == 1

\* the largest idf, in the model's fixed-point unit
MaxIdf == 1

DocIds == 1..NumDocs

\* pdraw['EmailID']: the EntryID of the message at each row of pdraw; the
\* inbox is iterated in the same order
EmailID == [i \in DocIds |-> 100 + i]

EntryIDs == Range(EmailID)

\* vectorizer.get_feature_names(): the vocabulary, in index order
features == <<"budget", "soil">>

TermIds == DOMAIN features

\* the query strings typed into the query cell, and the analyzer's tokens
\* of each ('bctw' is the notebook's own; here it is in no document)
Queries == {"budget", "budget soil", "bctw"}

Tokens(q) ==
    CASE q = "budget" -> {"budget"}
      [] q = "soil" -> {"soil"}
      [] q = "budget soil" -> {"budget", "soil"}
      [] OTHER -> {q}

\* the document-term matrices fit_transform can produce: one row per
\* document, one non-negative weight per vocabulary term
Matrices == [DocIds -> [TermIds -> 0..MaxWeight]]

\* the matrices of term presence: every weight is 0 or the unit
PresenceMatrices == [DocIds -> [TermIds -> {0, 1}]]

\* the value of the global x: the sparse matrix of fit_transform, or the
\* integer the query cell puts in the same name
MatrixValue(m) == [type |-> "csr_matrix", rows |-> m, n |-> 0]
IntValue(k) == [type |-> "int", rows |-> <<>>, n |-> k]

\* message.Categories of a message no query has tagged
NoCategory == ""

\* a body that is missing (None), and a body that is a string
Missing == [isna |-> TRUE, str |-> <<>>]
Str(s) == [isna |-> FALSE, str |-> s]

\* the two searches of a session
Runs == {"A", "B"}

VARIABLES
    Body,                   \* pdraw['Body']: a row is [isna, str]
    cleanRuns,              \* executions of the cleaning cell
    raised,                 \* the exception of the last cell run, "" if none
    x,                      \* the global x
    x_dense,                \* x.todense() of the fitted matrix
    idf_,                   \* vectorizer.idf_
    query,
    vec_query,
    cosine_sim,
    related_email_indices,
    emaildict,
    df,                     \* the DataFrame of the last ranking call
    call,                   \* the arguments of the last ranking call
    Categories,             \* message.Categories as saved in the store
    pc,                     \* where each search of the session is
    asked,                  \* the query each search typed
    result,                 \* the set of indices each search got
    applied,                \* the (EntryID, label) pairs each search saved
    saveError,              \* the EntryID whose Save raised in each search
    kmeans,                 \* the KMeans estimator of the clustering cell
    y_means,                \* kmeans.predict(x_dense)
    cluster_map             \* the DataFrame of data_index and cluster

cleanVars == <<Body, cleanRuns>>
modelVars == <<x_dense, idf_>>
queryVars == <<query, vec_query, cosine_sim>>
rankVars == <<df, call>>
tagVars == <<emaildict, Categories>>
runVars == <<pc, asked, result, applied, saveError>>
clusterVars == <<kmeans, y_means, cluster_map>>

vars ==
    <<Body, cleanRuns, raised, x, x_dense, idf_, query, vec_query, cosine_sim,
      related_email_indices, emaildict, df, call, Categories, pc, asked,
      result, applied, saveError, kmeans, y_means, cluster_map>>

\* the name kmeans before the clustering cell has run
NotFitted == [n_clusters |-> 0, labels_ |-> <<>>]

NoCall == [fn |-> "", row_id |-> 0, grp_ids |-> <<>>, min_tfidf |-> 0, top_n |-> 0]

\* the globals no cell has assigned yet, and an inbox no query has tagged
InitSession ==
    /\ raised = ""
    /\ query = ""
    /\ vec_query = <<>>
    /\ cosine_sim = <<>>
    /\ related_email_indices = <<>>
    /\ emaildict = <<>>
    /\ df = <<>>
    /\ call = NoCall
    /\ Categories = [id \in EntryIDs |-> NoCategory]
    /\ pc = [r \in Runs |-> "start"]
    /\ asked = [r \in Runs |-> ""]
    /\ result = [r \in Runs |-> {}]
    /\ applied = [r \in Runs |-> {}]
    /\ saveError = [r \in Runs |-> 0]
    /\ kmeans = NotFitted
    /\ y_means = <<>>
    /\ cluster_map = <<>>

\* the state after the fit cell (x = vectorizer.fit_transform(...)) and
\* x_dense = x.todense(), for the matrices ms and the idf vectors idfs
InitFitted(ms, idfs) ==
    /\ InitSession
    /\ Body = <<>>
    /\ cleanRuns = 0
    /\ x_dense \in ms
    /\ x = MatrixValue(x_dense)
    /\ idf_ \in idfs

(***************************************************************************)
(* The query cells                                                         *)
(***************************************************************************)
\* vectorizer.transform([q]): the idf weight of every vocabulary term the
\* query holds, 0 for the others; a token that is not in the vocabulary
\* is dropped
Transform(q) ==
    [t \in TermIds |-> IF features[t] \in Tokens(q) THEN idf_[t] ELSE 0]

\* a variant without the reversal, cosine_sim.argsort()[-x:]: the last
\* count places of the order, in the order's direction
RelatedEmailIndicesUnreversed(order, count) ==
    SubSeq(order, Len(order) - count + 1, Len(order))

\* cosine_sim.argsort()[:-x:-1], for one outcome (order) of the argsort
RelatedEmailIndices(order, count) == SliceRev(order, 0 - count)

\* the query cell: query = ...; vec_query = vectorizer.transform([query]);
\* cosine_sim = linear_kernel(vec_query, x_dense).flatten();
\* x = np.count_nonzero(cosine_sim)
QueryCell(r, q) ==
    /\ query' = q
    /\ vec_query' = Transform(q)
    /\ cosine_sim' = LinearKernel(Transform(q), x_dense)
    /\ x' = IntValue(CountNonzero(LinearKernel(Transform(q), x_dense)))
    /\ raised' = ""
    /\ pc' = [pc EXCEPT ![r] = "queried"]
    /\ asked' = [asked EXCEPT ![r] = q]
    /\ result' = [result EXCEPT ![r] = {}]
    /\ applied' = [applied EXCEPT ![r] = {}]
    /\ saveError' = [saveError EXCEPT ![r] = 0]
    /\ UNCHANGED <<cleanVars, modelVars, clusterVars, rankVars, tagVars,
                   related_email_indices>>

\* the cell related_email_indices = cosine_sim.argsort()[:-x:-1]
IndicesCell(r) ==
    /\ pc[r] = "queried"
    /\ x.type = "int"
    /\ \E order \in Argsort(cosine_sim) :
           /\ related_email_indices' = RelatedEmailIndices(order, x.n)
           /\ result' = [result EXCEPT
                           ![r] = Range(RelatedEmailIndices(order, x.n))]
    /\ raised' = ""
    /\ pc' = [pc EXCEPT ![r] = "searched"]
    /\ UNCHANGED <<cleanVars, modelVars, clusterVars, queryVars, rankVars,
                   tagVars, x, asked, applied, saveError>>

(***************************************************************************)
(* Tagging                                                                 *)
(***************************************************************************)
\* emaildict = {}; for item in related_email_indices:
\*     emaildict[pdraw.loc[item, 'EmailID']] = query
EmailDict(indices, q) ==
    [key \in {EmailID[item] : item \in Range(indices)} |-> q]

EmaildictCell(r) ==
    /\ pc[r] = "searched"
    /\ emaildict' = EmailDict(related_email_indices, query)
    /\ raised' = ""
    /\ pc' = [pc EXCEPT ![r] = "mapped"]
    /\ UNCHANGED <<cleanVars, modelVars, clusterVars, queryVars, rankVars, x,
                   related_email_indices, Categories, asked, result, applied,
                   saveError>>

\* The row at which the tagging loop ends: the first message of emaildict
\* whose message.Save() raises (nothing catches the exception), 0 when
\* none does.  failing is the set of EntryIDs whose Save the store refuses.
FirstFailure(dict, failing) ==
    LET bad == {i \in DocIds : EmailID[i] \in DOMAIN dict /\ EmailID[i] \in failing}
    IN  IF bad = {} THEN 0 ELSE CHOOSE i \in bad : \A j \in bad : i <= j

\* the messages the loop has saved when it ends
Saved(dict, failing) ==
    LET stop == FirstFailure(dict, failing)
    IN  {EmailID[i] : i \in {j \in DocIds : EmailID[j] \in DOMAIN dict
                                  /\ (stop = 0 \/ j < stop)}}

\* a first-write-wins variant: a message that has a label keeps it
NewCategoryKeepFirst(old, label) == IF old = NoCategory THEN label ELSE old

\* message.Categories = emaildict.get(key): the label replaces the old one
NewCategory(old, label) == label

\* for message in messages: for key in emaildict:
\*     if message.EntryID == key:
\*         message.Categories = emaildict.get(key); message.Save()
TagCell(r, failing) ==
    /\ pc[r] = "mapped"
    /\ LET saved == Saved(emaildict, failing)
           stop == FirstFailure(emaildict, failing)
       IN  /\ Categories' = [id \in EntryIDs |->
                               IF id \in saved
                               THEN NewCategory(Categories[id], emaildict[id])
                               ELSE Categories[id]]
           /\ applied' = [applied EXCEPT
                            ![r] = {<<id, emaildict[id]>> : id \in saved}]
           /\ saveError' = [saveError EXCEPT
                              ![r] = IF stop = 0 THEN 0 ELSE EmailID[stop]]
           /\ raised' = IF stop = 0 THEN "" ELSE "com_error"
    /\ pc' = [pc EXCEPT ![r] = "tagged"]
    /\ UNCHANGED <<cleanVars, modelVars, clusterVars, queryVars, rankVars, x,
                   related_email_indices, emaildict, asked, result>>

\* what the store can refuse in one run of the tagging cell: nothing, or
\* the Save of one message
Failing == {{}} \cup {{id} : id \in EntryIDs}

(***************************************************************************)
(* The tagging session: search A and tag, then search B and tag            *)
(***************************************************************************)
\* run B goes when run A is over
Sequential(r) == r = "A" \/ pc["A"] = "tagged"

Next ==
    \/ \E r \in Runs, q \in Queries :
           Sequential(r) /\ pc[r] = "start" /\ QueryCell(r, q)
    \/ \E r \in Runs : Sequential(r) /\ IndicesCell(r)
    \/ \E r \in Runs : Sequential(r) /\ EmaildictCell(r)
    \/ \E r \in Runs, failing \in Failing : Sequential(r) /\ TagCell(r, failing)

\* the session starts from every matrix of term presence, with every idf
\* the unit: which documents a query tags depends on the weights only
\* through the order of the similarities
Init == InitFitted(PresenceMatrices, {[t \in TermIds |-> 1]})

Spec == Init /\ [][Next]_vars

(***************************************************************************)
(* The search session: any number of searches, one after the other         *)
(***************************************************************************)
NextSearch ==
    \/ \E q \in Queries : pc["A"] = "start" /\ QueryCell("A", q)
    \/ IndicesCell("A")

InitSearch == InitFitted(Matrices, [TermIds -> 1..MaxIdf])

SpecSearch == InitSearch /\ [][NextSearch]_vars

(***************************************************************************)
(* Two searches, each with its tagging, whose cells interleave             *)
(***************************************************************************)
NextConc ==
    \/ \E r \in Runs, q \in Queries : pc[r] = "start" /\ QueryCell(r, q)
    \/ \E r \in Runs : IndicesCell(r)
    \/ \E r \in Runs : EmaildictCell(r)
    \/ \E r \in Runs : TagCell(r, {})

SpecConc == Init /\ [][NextConc]_vars

(***************************************************************************)
(* The cleaning cell                                                       *)
(***************************************************************************)
\* how often the cleaning cell is run
MaxCleanRuns == 2

\* the most pieces a raw body of the model is made of
MaxChunks == 3

\* the pieces raw bodies are made of
Chunks ==
    {<<"a">>, <<"1">>, <<" ">>, <<":">>, <<"-">>, <<"@">>, <<"\n">>,
     <<"h", "t", "t", "p", ":", "/", "/">>, ReplyDelimiter}

RECURSIVE Concats(_)
Concats(n) ==
    IF n = 0 THEN {<<>>}
    ELSE LET shorter == Concats(n - 1)
         IN  shorter \cup {b \o c : b \in shorter, c \in Chunks}

\* message.body of the messages read into pdraw: a string, or None
RawBodies == {Str(s) : s \in Concats(MaxChunks)} \cup {Missing}

\* the bodies of the second message of the corpus
OtherBodies == {Str(<<>>)} \cup {Str(c) : c \in Chunks}

\* pdraw['Body'] = pdraw['Body'].str.split(...).str[0]: a missing body
\* stays missing (NaN)
SplitColumn(col) ==
    [i \in DOMAIN col |->
        IF col[i].isna THEN Missing ELSE Str(SplitReply(col[i].str))]

\* the cleaning cell.  Its first line passes a missing body on; the second
\* line, pdraw['Body'].apply(lambda x: re.sub(..., x)), raises TypeError on
\* it and the cell ends there, the column holding the split bodies.
CleanCell ==
    /\ cleanRuns < MaxCleanRuns
    /\ cleanRuns' = cleanRuns + 1
    /\ IF \E i \in DOMAIN Body : Body[i].isna
       THEN /\ Body' = SplitColumn(Body)
            /\ raised' = "TypeError"
       ELSE /\ Body' = [i \in DOMAIN Body |->
                           Str(CleanText(SplitColumn(Body)[i].str))]
            /\ raised' = ""
    /\ UNCHANGED <<modelVars, clusterVars, queryVars, rankVars, tagVars,
                   runVars, x, related_email_indices>>

NextClean == CleanCell

\* the global x before the fit cell
Unassigned == [type |-> "unassigned", rows |-> <<>>, n |-> 0]

\* the state after pdraw is built from the inbox
InitClean ==
    /\ InitSession
    /\ Body \in {<<b, o>> : b \in RawBodies, o \in OtherBodies}
    /\ cleanRuns = 0
    /\ x = Unassigned
    /\ x_dense = <<>>
    /\ idf_ = <<>>

SpecClean == InitClean /\ [][NextClean]_vars

(***************************************************************************)
(* Feature ranking                                                         *)
(***************************************************************************)
\* min_tfidf=0.1, the default of top_mean_feats, in the fixed-point unit
DefaultMinTfidf == 1

RECURSIVE Factorial(_)
Factorial(n) == IF n = 0 THEN 1 ELSE n * Factorial(n - 1)

\* means are kept as multiples of 1/MeanScale, so that every mean of at
\* most NumDocs weights is a whole number
MeanScale == Factorial(NumDocs)

\* top_tfidf_feats(row, features, top_n), for one outcome (order) of
\* np.argsort(row): the features at the last top_n places of the order,
\* last first, each with its value in row
TopTfidfFeats(row, feats, top_n, order) ==
    LET topn_ids == ReverseTake(order, top_n)
    IN  [k \in DOMAIN topn_ids |-> <<feats[topn_ids[k]], row[topn_ids[k]]>>]

\* D = X[grp_ids].toarray() if grp_ids else X.toarray(): an empty list is
\* false, as None is
GroupRows(X, grp_ids) ==
    IF grp_ids # <<>> THEN [k \in DOMAIN grp_ids |-> X[grp_ids[k]]] ELSE X

\* D[D < min_tfidf] = 0
Denoise(D, min_tfidf) ==
    [i \in DOMAIN D |->
        [t \in DOMAIN D[i] |-> IF D[i][t] < min_tfidf THEN 0 ELSE D[i][t]]]

\* np.mean(D, axis=0)
ColumnMeans(D) ==
    [t \in TermIds |->
        (SumSeq([i \in DOMAIN D |-> D[i][t]]) * MeanScale) \div Len(D)]

\* the arguments of the ranking calls
TopNs == {1, 10}
MinTfidfs == {DefaultMinTfidf, MaxWeight + 1}
GroupLists ==
    {<<>>} \cup {<<i>> : i \in DocIds}
           \cup {<<i, j>> : i \in {1}, j \in DocIds \ {1}}

\* top_feats_in_doc(x, features, row_id, top_n): X[row_id] raises
\* TypeError when the global x holds the integer of the query cell
TopFeatsInDocCell(row_id, top_n) ==
    /\ call' = [fn |-> "top_feats_in_doc", row_id |-> row_id,
                grp_ids |-> <<>>, min_tfidf |-> 0, top_n |-> top_n]
    /\ IF x.type = "csr_matrix"
       THEN /\ \E order \in Argsort(x.rows[row_id]) :
                   df' = TopTfidfFeats(x.rows[row_id], features, top_n, order)
            /\ raised' = ""
       ELSE /\ df' = df
            /\ raised' = "TypeError"
    /\ UNCHANGED <<cleanVars, modelVars, clusterVars, queryVars, tagVars,
                   runVars, x, related_email_indices>>

\* top_mean_feats(x, features, grp_ids, min_tfidf, top_n)
TopMeanFeatsCell(grp_ids, min_tfidf, top_n) ==
    /\ call' = [fn |-> "top_mean_feats", row_id |-> 0, grp_ids |-> grp_ids,
                min_tfidf |-> min_tfidf, top_n |-> top_n]
    /\ IF x.type = "csr_matrix"
       THEN /\ LET tfidf_means ==
                       ColumnMeans(Denoise(GroupRows(x.rows, grp_ids), min_tfidf))
               IN  \E order \in Argsort(tfidf_means) :
                       df' = TopTfidfFeats(tfidf_means, features, top_n, order)
            /\ raised' = ""
       ELSE /\ df' = df
            /\ raised' = "TypeError"
    /\ UNCHANGED <<cleanVars, modelVars, clusterVars, queryVars, tagVars,
                   runVars, x, related_email_indices>>

\* ranking calls, before and after a search
NextRank ==
    \/ \E row_id \in DocIds, top_n \in TopNs : TopFeatsInDocCell(row_id, top_n)
    \/ \E grp_ids \in GroupLists, min_tfidf \in MinTfidfs, top_n \in TopNs :
           TopMeanFeatsCell(grp_ids, min_tfidf, top_n)
    \/ \E q \in Queries : pc["A"] = "start" /\ QueryCell("A", q)

SpecRank == InitSearch /\ [][NextRank]_vars

(***************************************************************************)
(* Clustering                                                              *)
(***************************************************************************)
\* k=3
n_clusters == 3

\* the rows of a matrix, each once
DistinctRows(X) == {X[i] : i \in DOMAIN X}

\* the labels_ KMeans(n_clusters=kk, random_state=0).fit(X) can end with:
\* every row gets the index of its nearest centre, a number in 0..kk-1,
\* so equal rows get the same label; the centres start at rows of X that
\* differ (k-means++), so with at most kk distinct rows each distinct row
\* is a centre and rows that differ get different labels.  Which label a
\* row gets, and where the centres end when there are more than kk
\* distinct rows, depends on the seeded initialisation of the library:
\* every labelling of this shape stands for an outcome.  fit does not
\* refuse a matrix for the number of its distinct rows: with fewer than
\* kk of them it ends with fewer than kk clusters in use (and a
\* ConvergenceWarning, which is no exception).
KMeansLabels(X, kk) ==
    {l \in [DOMAIN X -> 0..(kk - 1)] :
        /\ \A i, j \in DOMAIN X : X[i] = X[j] => l[i] = l[j]
        /\ Cardinality(DistinctRows(X)) <= kk =>
               \A i, j \in DOMAIN X : l[i] = l[j] => X[i] = X[j]}

\* cluster_map['data_index'] = pdraw.index.values;
\* cluster_map['cluster'] = kmeans.labels_
ClusterMap(labels) ==
    [i \in DOMAIN labels |-> [data_index |-> i - 1, cluster |-> labels[i]]]

\* the clustering cell: k=3; kmeans = KMeans(n_clusters=k,
\* random_state=0).fit(x_dense); y_means = kmeans.predict(x_dense);
\* cluster_map = ...  The one check of fit on the shape of its input is
\* n_samples >= n_clusters (ValueError); the cell has none of its own.
KMeansCell ==
    /\ IF Len(x_dense) < n_clusters
       THEN /\ raised' = "ValueError"
            /\ UNCHANGED clusterVars
       ELSE \E labels \in KMeansLabels(x_dense, n_clusters) :
                /\ kmeans' = [n_clusters |-> n_clusters, labels_ |-> labels]
                /\ y_means' = labels
                /\ cluster_map' = ClusterMap(labels)
                /\ raised' = ""
    /\ UNCHANGED <<cleanVars, modelVars, queryVars, rankVars, tagVars,
                   runVars, x, related_email_indices>>

\* the clustering session: the clustering cell, run on the fitted model
NextCluster == KMeansCell

SpecCluster == InitSearch /\ [][NextCluster]_vars

(***************************************************************************)
(* Properties                                                              *)
(***************************************************************************)
\* the searches that have a result
Searched(r) == pc[r] \in {"searched", "mapped", "tagged"}

\* the EntryIDs of a set of rows of pdraw
Entries(rows) == {EmailID[i] : i \in rows}

\* C1: when a search is over, related_email_indices holds exactly the
\* documents whose similarity to the query is greater than 0: none of them
\* is missing and no document of similarity 0 is in it.
C1_SearchReturnsPositiveMatches ==
    pc["A"] = "searched" =>
        Range(related_email_indices) = {i \in DocIds : cosine_sim[i] > 0}

\* C2: a message in the result of search A and in the result of the later
\* search B carries, after A's and then B's tagging cell have run (B's to
\* its end), exactly B's label.
C2_LastWriteWins ==
    (pc["A"] = "tagged" /\ pc["B"] = "tagged" /\ saveError["B"] = 0) =>
        \A id \in Entries(result["A"] \cap result["B"]) :
            Categories[id] = asked["B"]

\* a message that A's tagging labelled and B's tagging relabelled with
\* another query
C2_Witness ==
    /\ pc["A"] = "tagged" /\ pc["B"] = "tagged" /\ saveError["B"] = 0
    /\ asked["A"] # asked["B"]
    /\ \E id \in Entries(result["A"] \cap result["B"]) :
           /\ <<id, asked["A"]>> \in applied["A"]
           /\ <<id, asked["B"]>> \in applied["B"]
           /\ Categories[id] = asked["B"]

\* C3: when the tagging cell of a search has run and the Save of one
\* message failed in it, every other message of the search's result
\* carries the query as its label.
C3_WriteFailureSkipped ==
    \A r \in Runs :
        (pc[r] = "tagged" /\ (r = "A" => pc["B"] # "tagged")) =>
            \A id \in Entries(result[r]) \ {saveError[r]} :
                Categories[id] = asked[r]

\* C4: no step of a session changes the fitted model: the matrix in x, its
\* dense copy and the idf vector of the vectorizer stay as fit left them.
C4_SearchLeavesModel ==
    [][x' = x /\ x_dense' = x_dense /\ idf_' = idf_]_vars

\* what a search for q gives when it runs alone on the fitted model
AloneResults(q) ==
    LET sim == LinearKernel(Transform(q), x_dense)
    IN  {Range(RelatedEmailIndices(order, CountNonzero(sim))) :
            order \in Argsort(sim)}

\* C5: when two searches with different queries interleave their cells,
\* each gets a result it can get alone, and its tagging saves its own
\* query as the label of exactly the messages of that result.
C5_InterleavedSearchesIndependent ==
    asked["A"] # asked["B"] =>
        \A r \in Runs :
            /\ Searched(r) => result[r] \in AloneResults(asked[r])
            /\ pc[r] = "tagged" =>
                   applied[r] = {<<id, asked[r]>> : id \in Entries(result[r])}

\* C6: cleaning is idempotent: a body the cleaning cell has produced is
\* left as it is by the cleaning chain.
C6_CleanIdempotent ==
    (cleanRuns >= 1 /\ raised = "") =>
        \A i \in DOMAIN Body : CleanBody(Body[i].str) = Body[i].str

\* C7: a run of the cleaning cell raises nothing, turns a missing body
\* into the empty string and every other body into its cleaned form.
C7_MissingBodyYieldsEmpty ==
    [][cleanRuns' = cleanRuns + 1 =>
          /\ raised' = ""
          /\ \A i \in DOMAIN Body :
                 Body'[i] = IF Body[i].isna THEN Str(<<>>)
                            ELSE Str(CleanBody(Body[i].str))]_vars

\* C8, as amended: when a search is over, related_email_indices is in
\* descending order of similarity: no document comes before one of a
\* greater similarity.
C8_DescendingByScore ==
    pc["A"] = "searched" =>
        \A k \in 1..(Len(related_email_indices) - 1) :
            cosine_sim[related_email_indices[k]]
                >= cosine_sim[related_email_indices[k + 1]]

\* C8, as claimed: descending order of similarity, and documents of equal
\* similarity in ascending order of their index (asked here only of the
\* documents that match the query, which the claim surely covers).
C8_DescendingTiesAscending ==
    pc["A"] = "searched" =>
        \A k \in 1..(Len(related_email_indices) - 1) :
            LET a == related_email_indices[k]
                b == related_email_indices[k + 1]
            IN  /\ cosine_sim[a] >= cosine_sim[b]
                /\ (cosine_sim[a] = cosine_sim[b] /\ cosine_sim[b] > 0) => a < b

\* a result of a search that holds documents of different similarities
C8_Witness ==
    /\ pc["A"] = "searched"
    /\ \E k \in 1..(Len(related_email_indices) - 1) :
           cosine_sim[related_email_indices[k]]
               > cosine_sim[related_email_indices[k + 1]]

\* C9: top_mean_feats called with an empty group raises nothing and gives
\* an empty ranking.
C9_EmptyGroupEmptyRanking ==
    (call.fn = "top_mean_feats" /\ call.grp_ids = <<>>) =>
        (raised = "" /\ df = <<>>)

\* C10: top_feats_in_doc called with top_n greater than the size of the
\* vocabulary gives exactly the terms of non-zero weight in the row, in
\* descending order of weight.
C10_LargeTopNNonzeroTerms ==
    (call.fn = "top_feats_in_doc" /\ call.top_n > Len(features)
        /\ raised = "") =>
        /\ {df[k][1] : k \in DOMAIN df}
               = {features[t] : t \in {u \in TermIds : x_dense[call.row_id][u] # 0}}
        /\ \A k \in 1..(Len(df) - 1) : df[k][2] >= df[k + 1][2]

\* the distinct document vectors of the matrix that are not all zero
DistinctNonZero(X) == DistinctRows(X) \ {[t \in TermIds |-> 0]}

\* C11: a run of the clustering cell on a matrix with fewer distinct
\* non-zero document vectors than k raises InsufficientDiversityError and
\* assigns no clustering: kmeans, y_means and cluster_map stay as they were.
\* (Every step of the clustering session is a run of the clustering cell;
\* the property is asked here only of matrices that hold a non-zero vector.)
C11_FewDistinctVectorsFail ==
    [][(/\ DistinctNonZero(x_dense) # {}
        /\ Cardinality(DistinctNonZero(x_dense)) < n_clusters) =>
          /\ raised' = "InsufficientDiversityError"
          /\ UNCHANGED clusterVars]_vars

\* C12: a step of a search and tagging session changes the label of a
\* message only if the similarity of that message to the query of the
\* search is greater than 0; every other message keeps the label it had.
\* So a query with no term of the vocabulary, whose similarities are all
\* 0, changes no label.  (The searches of the session run one after the
\* other: when a tagging cell runs, cosine_sim is that of its own query.)
C12_OnlyMatchesRelabelled ==
    [][\A i \in DocIds :
          Categories'[EmailID[i]] # Categories[EmailID[i]] =>
              cosine_sim[i] > 0]_vars
====
